---- MODULE Spec2Model ----
(***************************************************************************)
(* Model of the ActiveCampaign webhook receiver                            *)
(* (src/activecampaign_webhooks_v2.py) over the store whose tables the     *)
(* program queries (unified_persons, ac_profile_updates, ac_webhook_log;   *)
(* unique index on ac_contact_id from src/init_webhook_database.py).       *)
(*                                                                         *)
(* Text values (Python str, SQL TEXT) are sequences of one-character       *)
(* strings, so that lower(), strip(), TRIM(), LOWER(), startswith() and    *)
(* the substring tests are computed, not assumed.  None (Python None, SQL  *)
(* NULL, an absent dictionary key) is the value <<"None">>, which is no    *)
(* text over the alphabet.  The store is modelled with every column the    *)
(* program's statements name.  Signature verification is not modelled      *)
(* (no secret configured).                                                 *)
(***************************************************************************)
EXTENDS Integers, Sequences, FiniteSets, TLC

VARIABLES
    DB_AVAILABLE,        \* module constant, fixed when the module is loaded
    unified_persons,     \* person_id -> row
    ac_profile_updates,  \* Change Log: sequence of rows, in insertion order
    ac_webhook_log,      \* Event Log: sequence of rows, in insertion order
    next_update_id,      \* AUTOINCREMENT counter of ac_profile_updates
    clock,               \* datetime.now()
    req,                 \* slot -> the request being handled in that slot
    nreq,                \* number of requests received so far
    hist,                \* history: slot -> store as it was when the request arrived
    links,               \* history: the links made, in order
    api                  \* the downstream consumer's last call and its history

vars == <<DB_AVAILABLE, unified_persons, ac_profile_updates, ac_webhook_log,
          next_update_id, clock, req, nreq, hist, links, api>>

-----------------------------------------------------------------------------
(* Bounds *)

NumPersons == 2
NumSlots == 2
MaxEvents == 2
MaxLinkEvents == 3
MaxApiCalls == 3
MaxItems == 2

PersonIds == 1..NumPersons
Slots == 1..NumSlots

-----------------------------------------------------------------------------
(* Text *)

None == <<"None">>

\* Python truthiness of a str-or-None value.
Truthy(v) == v # None /\ v # <<>>

\* dict.get(key, default) on a value that is None when the key is absent.
Get(v, default) == IF v = None THEN default ELSE v

\* Python `a or b`.
PyOr(a, b) == IF Truthy(a) THEN a ELSE b

Min(S) == CHOOSE m \in S : \A n \in S : m <= n
Max(S) == CHOOSE m \in S : \A n \in S : m >= n

\* The ASCII letters that occur in the values of this model.
AsciiUpper == <<"A", "B", "C", "I", "J", "L", "N", "S", "T">>
AsciiLower == <<"a", "b", "c", "i", "j", "l", "n", "s", "t">>

\* SQLite LOWER(): ASCII letters only.
SqlLowerChar(c) ==
    IF \E i \in 1..Len(AsciiUpper) : AsciiUpper[i] = c
    THEN AsciiLower[CHOOSE i \in 1..Len(AsciiUpper) : AsciiUpper[i] = c]
    ELSE c

\* str.lower(): Unicode-aware ("E'" stands for U+00C9, "e'" for U+00E9).
PyLowerChar(c) == IF c = "E'" THEN "e'" ELSE SqlLowerChar(c)

\* str.strip() removes any whitespace; SQLite TRIM() removes spaces only.
PyIsSpace(c) == c \in {" ", "\t"}
SqlIsSpace(c) == c = " "

lower(s) == [i \in 1..Len(s) |-> PyLowerChar(s[i])]
SqlLower(s) == [i \in 1..Len(s) |-> SqlLowerChar(s[i])]

strip(s) ==
    LET keep == {i \in 1..Len(s) : ~PyIsSpace(s[i])}
    IN  IF keep = {} THEN <<>> ELSE SubSeq(s, Min(keep), Max(keep))

SqlTrim(s) ==
    LET keep == {i \in 1..Len(s) : ~SqlIsSpace(s[i])}
    IN  IF keep = {} THEN <<>> ELSE SubSeq(s, Min(keep), Max(keep))

\* str.startswith(p)
StartsWith(s, p) == Len(s) >= Len(p) /\ SubSeq(s, 1, Len(p)) = p

\* `kw in s`
Contains(s, kw) ==
    \E i \in 1..(Len(s) + 1) :
        i + Len(kw) - 1 <= Len(s) /\ SubSeq(s, i, i + Len(kw) - 1) = kw

-----------------------------------------------------------------------------
(* Words of the program text *)

K_contact_ == <<"c", "o", "n", "t", "a", "c", "t", "_">>
K_update == <<"u", "p", "d", "a", "t", "e">>
K_add == <<"a", "d", "d">>
K_delete == <<"d", "e", "l", "e", "t", "e">>
K_contact_update == K_contact_ \o K_update
K_contact_add == K_contact_ \o K_add
K_contact_delete == K_contact_ \o K_delete

K_company == <<"c", "o", "m", "p", "a", "n", "y">>
K_industry == <<"i", "n", "d", "u", "s", "t", "r", "y">>
K_job == <<"j", "o", "b">>
K_title == <<"t", "i", "t", "l", "e">>
K_location == <<"l", "o", "c", "a", "t", "i", "o", "n">>
K_summary == <<"s", "u", "m", "m", "a", "r", "y">>

-----------------------------------------------------------------------------
(* Payload *)

\* webhook_handler: the payload built from the request body.  A JSON body is
\* taken as it is; a form body yields type (default 'contact_update') and the
\* contact[...] keys only, whose values are strings.
ParsePayload(rq) ==
    IF rq.ctype = "json"
    THEN [type |-> rq.type, contact_id |-> rq.contact_id, contact |-> rq.contact]
    ELSE [type |-> Get(rq.type, K_contact_update),
          contact_id |-> None,
          contact |-> [rq.contact EXCEPT !.fieldValues = <<>>]]

\* webhook_handler: payload.get('type', '') with 'contact_' prefixed when absent.
NormalizeType(payload) ==
    LET webhook_type == Get(payload.type, <<>>)
    IN  IF Truthy(webhook_type) /\ ~StartsWith(webhook_type, K_contact_)
        THEN K_contact_ \o webhook_type
        ELSE webhook_type

_extract_contact_id(payload) ==
    PyOr(Get(payload.contact.id, <<>>), Get(payload.contact_id, <<>>))

_extract_email(payload) == strip(lower(Get(payload.contact.email, <<>>)))

\* extract_profile_fields: the profile key a custom field name maps to
\* (None: no keyword matches).
CustomFieldKey(field_name) ==
    LET n == lower(field_name)
    IN  IF Contains(n, K_company) THEN "company"
        ELSE IF Contains(n, K_industry) THEN "industry"
        ELSE IF Contains(n, K_job) \/ Contains(n, K_title) THEN "position"
        ELSE IF Contains(n, K_location) THEN "location"
        ELSE IF Contains(n, K_summary) THEN "professional_summary"
        ELSE "none"

\* extract_profile_fields: the loop over fieldValues, a later entry overwriting
\* an earlier one for the same key.
RECURSIVE ExtractCustomFields(_, _)
ExtractCustomFields(profile, field_values) ==
    IF field_values = <<>> THEN profile
    ELSE LET field_data == Head(field_values)
             key == CustomFieldKey(field_data.field)
         IN  ExtractCustomFields(
                 IF key = "none" THEN profile
                 ELSE [profile EXCEPT ![key] = field_data.value],
                 Tail(field_values))

\* extract_profile_fields: a key the dictionary does not hold is None.
extract_profile_fields(payload) ==
    LET contact == payload.contact
    IN  ExtractCustomFields(
            [first_name |-> PyOr(contact.firstName, Get(contact.first_name, <<>>)),
             last_name |-> PyOr(contact.lastName, Get(contact.last_name, <<>>)),
             email |-> strip(lower(Get(contact.email, <<>>))),
             phone |-> Get(contact.phone, <<>>),
             company |-> None,
             industry |-> None,
             position |-> None,
             location |-> None,
             professional_summary |-> None],
            contact.fieldValues)

-----------------------------------------------------------------------------
(* update_person_profile: the diff *)

\* FieldChange without the test that the incoming value is non-empty.
FieldChange_NoTruthy(current, profile_updates, key, column) ==
    IF profile_updates[key] # current[column]
    THEN << <<column, current[column], profile_updates[key]>> >>
    ELSE <<>>

\* FieldChange without the comparison with the stored value.
FieldChange_NoCompare(current, profile_updates, key, column) ==
    IF Truthy(profile_updates[key])
    THEN << <<column, current[column], profile_updates[key]>> >>
    ELSE <<>>

\* One `if profile_updates.get(key) and profile_updates[key] != current[i]`
\* block: the entry appended to changes_logged, if any.
FieldChange(current, profile_updates, key, column) ==
    IF Truthy(profile_updates[key]) /\ profile_updates[key] # current[column]
    THEN << <<column, current[column], profile_updates[key]>> >>
    ELSE <<>>

\* The first+last name block.
NameChange(current, profile_updates) ==
    IF Truthy(profile_updates.first_name) \/ Truthy(profile_updates.last_name)
    THEN LET new_name == strip(Get(profile_updates.first_name, <<>>) \o <<" ">>
                               \o Get(profile_updates.last_name, <<>>))
         IN  IF Truthy(new_name) /\ new_name # current.name
             THEN << <<"name", current.name, new_name>> >>
             ELSE <<>>
    ELSE <<>>

\* ChangesLogged without the industry block.
ChangesLogged_OmitIndustry(current, profile_updates) ==
    NameChange(current, profile_updates)
    \o FieldChange(current, profile_updates, "email", "primary_email")
    \o FieldChange(current, profile_updates, "phone", "phone")
    \o FieldChange(current, profile_updates, "company", "company")
    \o FieldChange(current, profile_updates, "position", "position")
    \o FieldChange(current, profile_updates, "location", "location")
    \o FieldChange(current, profile_updates, "professional_summary", "professional_summary")

\* changes_logged, in the order the blocks append to it.
ChangesLogged(current, profile_updates) ==
    NameChange(current, profile_updates)
    \o FieldChange(current, profile_updates, "email", "primary_email")
    \o FieldChange(current, profile_updates, "phone", "phone")
    \o FieldChange(current, profile_updates, "company", "company")
    \o FieldChange(current, profile_updates, "position", "position")
    \o FieldChange(current, profile_updates, "industry", "industry")
    \o FieldChange(current, profile_updates, "location", "location")
    \o FieldChange(current, profile_updates, "professional_summary", "professional_summary")

\* An UPDATE that leaves the columns as they were.
SetColumns_KeepsOld(row, changes) == row

\* UPDATE unified_persons SET <changed columns>, ac_last_synced = now.
RECURSIVE SetColumns(_, _)
SetColumns(row, changes) ==
    IF changes = <<>> THEN row
    ELSE SetColumns([row EXCEPT ![Head(changes)[1]] = Head(changes)[3]], Tail(changes))

\* synced_at of a Change Record that has not been acknowledged: NULL.
NullTime == 0

\* ChangeRows that records no old value.
ChangeRows_NoOldValue(person_id, ac_contact_id, changes, first_id, now) ==
    [i \in 1..Len(changes) |->
        [update_id |-> first_id + i - 1,
         person_id |-> person_id,
         ac_contact_id |-> ac_contact_id,
         field_name |-> changes[i][1],
         old_value |-> None,
         new_value |-> changes[i][3],
         updated_at |-> now,
         source |-> "webhook",
         synced_to_local |-> 0,
         synced_at |-> NullTime]]

\* INSERT INTO ac_profile_updates, one row per entry of changes_logged; the
\* columns the statement does not name take their defaults.
ChangeRows(person_id, ac_contact_id, changes, first_id, now) ==
    [i \in 1..Len(changes) |->
        [update_id |-> first_id + i - 1,
         person_id |-> person_id,
         ac_contact_id |-> ac_contact_id,
         field_name |-> changes[i][1],
         old_value |-> changes[i][2],
         new_value |-> changes[i][3],
         updated_at |-> now,
         source |-> "webhook",
         synced_to_local |-> 0,
         synced_at |-> NullTime]]

-----------------------------------------------------------------------------
(* Store *)

\* The store without the unique index.
UniqueIndexViolated_NoIndex(persons, person_id, ac_contact_id) == FALSE

\* CREATE UNIQUE INDEX idx_ac_contact_id_unique ON unified_persons(ac_contact_id)
\* WHERE ac_contact_id IS NOT NULL: would the index reject giving the row
\* person_id the value ac_contact_id?
UniqueIndexViolated(persons, person_id, ac_contact_id) ==
    /\ ac_contact_id # None
    /\ \E q \in DOMAIN persons :
           q # person_id /\ persons[q].ac_contact_id = ac_contact_id

\* RowsByAcId comparing with the email column: the lookup by id finds nothing.
RowsByAcId_WrongColumn(persons, ac_contact_id) ==
    {p \in DOMAIN persons :
        persons[p].primary_email # None /\ persons[p].primary_email = ac_contact_id}

\* find_person_by_ac_id: the rows WHERE ac_contact_id = ? (NULL equals nothing).
RowsByAcId(persons, ac_contact_id) ==
    {p \in DOMAIN persons :
        persons[p].ac_contact_id # None /\ persons[p].ac_contact_id = ac_contact_id}

\* find_person_by_email: the rows WHERE LOWER(TRIM(primary_email)) = ?, the
\* parameter being email.lower().strip().
RowsByEmail(persons, email) ==
    {p \in DOMAIN persons :
        /\ persons[p].primary_email # None
        /\ SqlLower(SqlTrim(persons[p].primary_email)) = strip(lower(email))}

\* dict(result) of the two find functions.
PersonDict(persons, p) ==
    [person_id |-> p,
     name |-> persons[p].name,
     primary_email |-> persons[p].primary_email,
     ac_contact_id |-> persons[p].ac_contact_id]

\* UPDATE unified_persons SET ac_contact_id = ?, ac_profile_source =
\* 'activecampaign' WHERE person_id = ?
LinkRow(row, ac_contact_id) ==
    [row EXCEPT !.ac_contact_id = ac_contact_id,
                !.ac_profile_source = "activecampaign"]

\* INSERT INTO ac_webhook_log
WebhookLogRow(webhook_type, payload, processed, person_id, error, now) ==
    [webhook_type |-> webhook_type,
     ac_contact_id |-> _extract_contact_id(payload),
     email |-> _extract_email(payload),
     received_at |-> now,
     payload |-> payload,
     processed |-> processed,
     person_id |-> person_id,
     error_message |-> error]

-----------------------------------------------------------------------------
(* Requests in flight *)

SqlNull == "<NULL>"

NoContact ==
    [id |-> None, email |-> None, firstName |-> None, lastName |-> None,
     first_name |-> None, last_name |-> None, phone |-> None, fieldValues |-> <<>>]

NoPayload == [type |-> None, contact_id |-> None, contact |-> NoContact]

\* The profile dictionary before extract_profile_fields fills it.
NoProfile ==
    [first_name |-> <<>>, last_name |-> <<>>, email |-> <<>>, phone |-> <<>>,
     company |-> None, industry |-> None, position |-> None, location |-> None,
     professional_summary |-> None]

\* No response sent yet.
NoResp == [status |-> 0, success |-> FALSE, person_id |-> 0, message |-> "", error |-> ""]

\* jsonify(result), 200
Result(success, person_id, message) ==
    [status |-> 200, success |-> success, person_id |-> person_id,
     message |-> message, error |-> ""]

\* jsonify({'error': ...}), status
ErrorResp(status, error) ==
    [status |-> status, success |-> FALSE, person_id |-> 0, message |-> "", error |-> error]

IdleReq ==
    [pc |-> "idle", webhook_type |-> <<>>, payload |-> NoPayload,
     ac_contact_id |-> <<>>, email |-> <<>>, person |-> <<>>,
     profile_updates |-> NoProfile, current |-> <<>>,
     success |-> FALSE, resp |-> NoResp]

\* No request received.
NoRequest == [ctype |-> "none", type |-> None, contact_id |-> None, contact |-> NoContact]

\* History of a slot: the store as it was when its request arrived, the request
\* as it was sent, the request the slot held before, and whether a store
\* operation has failed while the request was handled.
NoHist ==
    [persons |-> <<>>, nlog |-> 0, nupd |-> 0, nlinks |-> 0,
     rq |-> NoRequest, prev |-> IdleReq, failed |-> FALSE]

\* The downstream consumer has made no call.
NoApi ==
    [last |-> "none", status |-> 0, include_synced |-> FALSE, since |-> NullTime,
     limit |-> 0, pulled |-> {}, cutoff |-> 0, dry_run |-> TRUE, count |-> 0,
     before |-> <<>>, confirmed |-> {}, missed |-> {}, upto |-> 0, ncalls |-> 0]

Free(s) == req[s].pc \in {"idle", "done"}

\* The slot a new request takes: the lowest free one.
FreeSlot(s) == Free(s) /\ \A t \in Slots : t < s => ~Free(t)

IsUpdate(r) == r.webhook_type = K_contact_update
IsAdd(r) == r.webhook_type = K_contact_add
IsDelete(r) == r.webhook_type = K_contact_delete

\* webhook_handler: parse, normalise the type and route; an unknown type is
\* answered 400 at once.
Receive(s, rq) ==
    /\ FreeSlot(s)
    /\ nreq' = nreq + 1
    /\ LET payload == ParsePayload(rq)
           webhook_type == NormalizeType(payload)
           r == [IdleReq EXCEPT !.webhook_type = webhook_type,
                                !.payload = payload,
                                !.ac_contact_id = _extract_contact_id(payload),
                                !.email = _extract_email(payload)]
       IN  req' = [req EXCEPT ![s] =
                IF webhook_type \in {K_contact_update, K_contact_add}
                THEN [r EXCEPT !.pc = "find_person_by_ac_id"]
                ELSE IF webhook_type = K_contact_delete
                THEN [r EXCEPT !.pc = "log_webhook"]
                ELSE [r EXCEPT !.pc = "done",
                               !.resp = ErrorResp(400, "Unknown webhook type")]]
    /\ hist' = [hist EXCEPT ![s] = [persons |-> unified_persons,
                                    nlog |-> Len(ac_webhook_log),
                                    nupd |-> Len(ac_profile_updates),
                                    nlinks |-> Len(links),
                                    rq |-> rq,
                                    prev |-> req[s],
                                    failed |-> FALSE]]
    /\ UNCHANGED <<DB_AVAILABLE, unified_persons, ac_profile_updates,
                   ac_webhook_log, next_update_id, clock, links, api>>

\* Does the handler link the person it found?  handle_contact_update links a
\* person found by email; handle_contact_add links a person whose
\* ac_contact_id is not set.
Links(r, person, by_email) ==
    IF IsUpdate(r)
    THEN by_email /\ DB_AVAILABLE
    ELSE ~Truthy(person.ac_contact_id) /\ DB_AVAILABLE

\* Found with handle_contact_add applying the profile as handle_contact_update
\* does.
Found_AddUpdates(r, person, by_email) ==
    [r EXCEPT !.person = <<person>>,
              !.profile_updates = extract_profile_fields(r.payload),
              !.pc = IF Links(r, person, by_email) THEN "link" ELSE "update_read"]

\* The handler once `person` is set: link if it links; then
\* handle_contact_update extracts the profile and updates, handle_contact_add
\* logs.
Found(r, person, by_email) ==
    [r EXCEPT !.person = <<person>>,
              !.profile_updates = IF IsUpdate(r) THEN extract_profile_fields(r.payload)
                                  ELSE NoProfile,
              !.pc = IF Links(r, person, by_email) THEN "link"
                     ELSE IF IsUpdate(r) THEN "update_read"
                     ELSE "log_webhook"]

\* find_person_by_ac_id as called by the two handlers (LIMIT 1 without ORDER
\* BY: any matching row).
FindPersonByAcId(s) ==
    /\ req[s].pc = "find_person_by_ac_id"
    /\ LET rows == IF DB_AVAILABLE
                   THEN RowsByAcId(unified_persons, req[s].ac_contact_id)
                   ELSE {}
       IN  IF rows = {}
           THEN req' = [req EXCEPT ![s].pc = "find_person_by_email"]
           ELSE \E p \in rows :
                    LET person == PersonDict(unified_persons, p)
                    IN  req' = [req EXCEPT ![s] = Found(@, person, FALSE)]
    /\ UNCHANGED <<DB_AVAILABLE, unified_persons, ac_profile_updates,
                   ac_webhook_log, next_update_id, clock, nreq, hist, links, api>>

\* find_person_by_email as called by the two handlers, and the person-not-found
\* branch when the database is unavailable (answered without a log entry).
FindPersonByEmail(s) ==
    /\ req[s].pc = "find_person_by_email"
    /\ LET rows == IF DB_AVAILABLE
                   THEN RowsByEmail(unified_persons, req[s].email)
                   ELSE {}
       IN  IF rows = {}
           THEN req' = [req EXCEPT ![s] =
                    IF ~DB_AVAILABLE
                    THEN [@ EXCEPT !.pc = "done",
                                   !.resp = Result(TRUE, 0,
                                       "Webhook logged (database unavailable on free tier)")]
                    ELSE [@ EXCEPT !.pc = "log_webhook"]]
           ELSE \E p \in rows :
                    LET person == PersonDict(unified_persons, p)
                    IN  req' = [req EXCEPT ![s] = Found(@, person, TRUE)]
    /\ UNCHANGED <<DB_AVAILABLE, unified_persons, ac_profile_updates,
                   ac_webhook_log, next_update_id, clock, nreq, hist, links, api>>

\* The UPDATE that links the ac_contact_id.  The unique index rejects a value
\* another row holds: the IntegrityError leaves the handler and webhook_handler
\* answers 500.
LinkAcContactId(s) ==
    /\ req[s].pc = "link"
    /\ LET person_id == req[s].person[1].person_id
       IN  IF UniqueIndexViolated(unified_persons, person_id, req[s].ac_contact_id)
           THEN /\ req' = [req EXCEPT ![s].pc = "done",
                                      ![s].resp = ErrorResp(500, "UNIQUE constraint failed")]
                /\ UNCHANGED <<unified_persons, links>>
           ELSE /\ unified_persons' =
                       [unified_persons EXCEPT ![person_id] = LinkRow(@, req[s].ac_contact_id)]
                /\ links' = Append(links,
                       [person_id |-> person_id,
                        ac_contact_id |-> req[s].ac_contact_id,
                        previous |-> unified_persons[person_id].ac_contact_id])
                /\ req' = [req EXCEPT ![s].pc =
                              IF IsUpdate(req[s]) THEN "update_read" ELSE "log_webhook"]
    /\ UNCHANGED <<DB_AVAILABLE, ac_profile_updates, ac_webhook_log,
                   next_update_id, clock, nreq, hist, api>>

\* update_person_profile up to the SELECT of the current values.
UpdateRead(s) ==
    /\ req[s].pc = "update_read"
    /\ LET person_id == req[s].person[1].person_id
       IN  req' = [req EXCEPT ![s] =
                IF ~DB_AVAILABLE
                THEN [@ EXCEPT !.success = TRUE, !.pc = "log_webhook"]
                ELSE IF person_id \notin DOMAIN unified_persons
                THEN [@ EXCEPT !.success = FALSE, !.pc = "log_webhook"]
                ELSE [@ EXCEPT !.current = <<unified_persons[person_id]>>,
                               !.pc = "update_write"]]
    /\ UNCHANGED <<DB_AVAILABLE, unified_persons, ac_profile_updates,
                   ac_webhook_log, next_update_id, clock, nreq, hist, links, api>>

\* update_person_profile from the diff to the commit: one UPDATE of the changed
\* columns and ac_last_synced, one INSERT per change, in one transaction.
UpdateWrite(s) ==
    /\ req[s].pc = "update_write"
    /\ LET person_id == req[s].person[1].person_id
           changes_logged == ChangesLogged(req[s].current[1], req[s].profile_updates)
       IN  IF changes_logged # <<>>
           THEN /\ unified_persons' =
                       [unified_persons EXCEPT ![person_id] =
                           [SetColumns(@, changes_logged) EXCEPT !.ac_last_synced = clock]]
                /\ ac_profile_updates' = ac_profile_updates \o
                       ChangeRows(person_id, req[s].ac_contact_id, changes_logged,
                                  next_update_id, clock)
                /\ next_update_id' = next_update_id + Len(changes_logged)
                /\ clock' = clock + 1
           ELSE UNCHANGED <<unified_persons, ac_profile_updates, next_update_id, clock>>
    /\ req' = [req EXCEPT ![s].success = TRUE, ![s].pc = "log_webhook"]
    /\ UNCHANGED <<DB_AVAILABLE, ac_webhook_log, nreq, hist, links, api>>

\* HandlerResult with the person-not-found branches reporting success.
HandlerResult_NotFoundSucceeds(r) ==
    IF IsDelete(r)
    THEN Result(TRUE, 0, "Deletion logged (no action taken per requirements)")
    ELSE IF r.person # <<>>
    THEN IF IsUpdate(r)
         THEN Result(r.success, r.person[1].person_id,
                     IF r.success THEN "Profile updated" ELSE "Update failed")
         ELSE Result(TRUE, r.person[1].person_id, "Linked to existing person")
    ELSE Result(TRUE, 0, "Webhook logged (database unavailable on free tier)")

\* The result a handler returns after its log_webhook call.
HandlerResult(r) ==
    IF IsDelete(r)
    THEN Result(TRUE, 0, "Deletion logged (no action taken per requirements)")
    ELSE IF r.person # <<>>
    THEN IF IsUpdate(r)
         THEN Result(r.success, r.person[1].person_id,
                     IF r.success THEN "Profile updated" ELSE "Update failed")
         ELSE Result(TRUE, r.person[1].person_id, "Linked to existing person")
    ELSE IF IsUpdate(r)
         THEN Result(FALSE, 0, "Contact not found in analytics database")
         ELSE Result(FALSE, 0, "New contact - will sync via next export")

\* log_webhook as the handlers call it, followed by the handler's return and
\* webhook_handler's 200.  Without a database nothing is inserted.
LogWebhook(s) ==
    /\ req[s].pc = "log_webhook"
    /\ LET r == req[s]
           found == r.person # <<>>
           processed == IsDelete(r) \/ found
           person_id == IF found THEN r.person[1].person_id ELSE 0
           error == IF processed THEN SqlNull
                    ELSE IF IsUpdate(r) THEN "Contact not in analytics database"
                    ELSE "New contact - pending export sync"
       IN  /\ IF DB_AVAILABLE
              THEN /\ ac_webhook_log' = Append(ac_webhook_log,
                          WebhookLogRow(r.webhook_type, r.payload, processed,
                                        person_id, error, clock))
                   /\ clock' = clock + 1
              ELSE UNCHANGED <<ac_webhook_log, clock>>
           /\ req' = [req EXCEPT ![s].pc = "done", ![s].resp = HandlerResult(r)]
    /\ UNCHANGED <<DB_AVAILABLE, unified_persons, ac_profile_updates,
                   next_update_id, nreq, hist, links, api>>

-----------------------------------------------------------------------------
(* Store failures: a statement of the handler raises sqlite3.Error *)

\* find_person_by_ac_id when its SELECT raises: the except clause returns None.
FindPersonByAcIdFails(s) ==
    /\ req[s].pc = "find_person_by_ac_id"
    /\ DB_AVAILABLE
    /\ req' = [req EXCEPT ![s].pc = "find_person_by_email"]
    /\ hist' = [hist EXCEPT ![s].failed = TRUE]
    /\ UNCHANGED <<DB_AVAILABLE, unified_persons, ac_profile_updates,
                   ac_webhook_log, next_update_id, clock, nreq, links, api>>

\* find_person_by_email when its SELECT raises: the except clause returns None
\* and the handler takes its person-not-found branch.
FindPersonByEmailFails(s) ==
    /\ req[s].pc = "find_person_by_email"
    /\ DB_AVAILABLE
    /\ req' = [req EXCEPT ![s].pc = "log_webhook"]
    /\ hist' = [hist EXCEPT ![s].failed = TRUE]
    /\ UNCHANGED <<DB_AVAILABLE, unified_persons, ac_profile_updates,
                   ac_webhook_log, next_update_id, clock, nreq, links, api>>

\* The link UPDATE when it raises: nothing in the handler catches it, and
\* webhook_handler answers 500.
LinkAcContactIdFails(s) ==
    /\ req[s].pc = "link"
    /\ req' = [req EXCEPT ![s].pc = "done",
                          ![s].resp = ErrorResp(500, "database is locked")]
    /\ hist' = [hist EXCEPT ![s].failed = TRUE]
    /\ UNCHANGED <<DB_AVAILABLE, unified_persons, ac_profile_updates,
                   ac_webhook_log, next_update_id, clock, nreq, links, api>>

\* update_person_profile when the SELECT of the current values raises: the
\* except clause returns False.
UpdateReadFails(s) ==
    /\ req[s].pc = "update_read"
    /\ DB_AVAILABLE
    /\ req' = [req EXCEPT ![s].success = FALSE, ![s].pc = "log_webhook"]
    /\ hist' = [hist EXCEPT ![s].failed = TRUE]
    /\ UNCHANGED <<DB_AVAILABLE, unified_persons, ac_profile_updates,
                   ac_webhook_log, next_update_id, clock, nreq, links, api>>

\* A connection context manager that keeps what was written before the
\* exception.
Rollback_KeepsWrites(before, written) == written

\* `with sqlite3.connect(...) as conn` left by an exception: the transaction is
\* rolled back.
Rollback(before, written) == before

\* update_person_profile when a statement of its transaction raises after
\* `done` statements succeeded (the UPDATE, then one INSERT per change, then the
\* commit): rollback, and the except clause returns False.
UpdateWriteFails(s, done) ==
    /\ req[s].pc = "update_write"
    /\ LET person_id == req[s].person[1].person_id
           changes_logged == ChangesLogged(req[s].current[1], req[s].profile_updates)
           rows == ChangeRows(person_id, req[s].ac_contact_id, changes_logged,
                              next_update_id, clock)
       IN  /\ changes_logged # <<>>
           /\ done \in 0..(Len(changes_logged) + 1)
           /\ unified_persons' = Rollback(unified_persons,
                  IF done >= 1
                  THEN [unified_persons EXCEPT ![person_id] =
                           [SetColumns(@, changes_logged) EXCEPT !.ac_last_synced = clock]]
                  ELSE unified_persons)
           /\ ac_profile_updates' = Rollback(ac_profile_updates,
                  IF done >= 2
                  THEN ac_profile_updates \o SubSeq(rows, 1, done - 1)
                  ELSE ac_profile_updates)
    /\ req' = [req EXCEPT ![s].success = FALSE, ![s].pc = "log_webhook"]
    /\ hist' = [hist EXCEPT ![s].failed = TRUE]
    /\ UNCHANGED <<DB_AVAILABLE, ac_webhook_log, next_update_id, clock, nreq, links, api>>

\* log_webhook when its INSERT raises: the except clause returns None and the
\* handler returns its result.
LogWebhookFails(s) ==
    /\ req[s].pc = "log_webhook"
    /\ DB_AVAILABLE
    /\ req' = [req EXCEPT ![s].pc = "done", ![s].resp = HandlerResult(req[s])]
    /\ hist' = [hist EXCEPT ![s].failed = TRUE]
    /\ UNCHANGED <<DB_AVAILABLE, unified_persons, ac_profile_updates,
                   ac_webhook_log, next_update_id, clock, nreq, links, api>>

-----------------------------------------------------------------------------
(* Downstream pull interface *)

\* api_profile_updates: the rows the WHERE clause keeps.
PullFilter(updates, include_synced, since) ==
    {i \in DOMAIN updates :
        /\ include_synced \/ updates[i].synced_to_local = 0
        /\ since # NullTime => updates[i].updated_at >= since}

\* api_profile_updates: ORDER BY updated_at DESC LIMIT ?: the sets of rows the
\* query may return (rows of equal updated_at come in any order).
PullResults(updates, include_synced, since, limit) ==
    LET kept == PullFilter(updates, include_synced, since)
        n == IF limit < Cardinality(kept) THEN limit ELSE Cardinality(kept)
    IN  {rows \in SUBSET kept :
            /\ Cardinality(rows) = n
            /\ \A i \in rows : \A j \in kept \ rows :
                   updates[i].updated_at >= updates[j].updated_at}

\* GET /api/profile-updates
ApiProfileUpdates(include_synced, since, limit) ==
    /\ IF ~DB_AVAILABLE
       THEN api' = [api EXCEPT !.last = "pull", !.status = 503, !.pulled = {},
                               !.ncalls = @ + 1]
       ELSE \E rows \in PullResults(ac_profile_updates, include_synced, since, limit) :
                api' = [api EXCEPT !.last = "pull", !.status = 200,
                                   !.include_synced = include_synced,
                                   !.since = since, !.limit = limit,
                                   !.pulled = {ac_profile_updates[i].update_id : i \in rows},
                                   !.upto = next_update_id,
                                   !.ncalls = @ + 1]
    /\ UNCHANGED <<DB_AVAILABLE, unified_persons, ac_profile_updates, ac_webhook_log,
                   next_update_id, clock, req, nreq, hist, links>>

\* A confirmation that marks every row, listed or not.
ConfirmRows_All(updates, update_ids, now) ==
    [i \in DOMAIN updates |->
        [updates[i] EXCEPT !.synced_to_local = 1, !.synced_at = now]]

\* confirm_sync: UPDATE ac_profile_updates SET synced_to_local = 1, synced_at = ?
\* WHERE update_id IN (...)
ConfirmRows(updates, update_ids, now) ==
    [i \in DOMAIN updates |->
        IF updates[i].update_id \in update_ids
        THEN [updates[i] EXCEPT !.synced_to_local = 1, !.synced_at = now]
        ELSE updates[i]]

\* POST /api/profile-updates/confirm
ConfirmSync(update_ids) ==
    /\ IF ~DB_AVAILABLE
       THEN /\ api' = [api EXCEPT !.last = "confirm", !.status = 503, !.ncalls = @ + 1]
            /\ UNCHANGED <<ac_profile_updates, clock>>
       ELSE IF update_ids = {}
       THEN /\ api' = [api EXCEPT !.last = "confirm", !.status = 400, !.ncalls = @ + 1]
            /\ UNCHANGED <<ac_profile_updates, clock>>
       ELSE LET stored == {ac_profile_updates[i].update_id : i \in DOMAIN ac_profile_updates}
            IN  /\ ac_profile_updates' = ConfirmRows(ac_profile_updates, update_ids, clock)
                /\ clock' = clock + 1
                /\ api' = [api EXCEPT
                       !.last = "confirm", !.status = 200,
                       !.count = Cardinality(stored \cap update_ids),
                       !.confirmed = @ \cup (stored \cap update_ids),
                       !.missed = IF api.last = "pull"
                                  THEN @ \cup {id \in stored \ update_ids : id >= api.upto}
                                  ELSE @,
                       !.ncalls = @ + 1]
    /\ UNCHANGED <<DB_AVAILABLE, unified_persons, ac_webhook_log, next_update_id,
                   req, nreq, hist, links>>

\* A cleanup that deletes every old row, acknowledged or not.
Deletable_AnyOld(updates, cutoff) ==
    {i \in DOMAIN updates : updates[i].updated_at < cutoff}

\* cleanup_old_updates: the rows WHERE synced_to_local = 1 AND synced_at < ?
Deletable(updates, cutoff) ==
    {i \in DOMAIN updates :
        /\ updates[i].synced_to_local = 1
        /\ updates[i].synced_at # NullTime
        /\ updates[i].synced_at < cutoff}

\* DELETE FROM ac_profile_updates WHERE synced_to_local = 1 AND synced_at < ?
DeleteRows(updates, cutoff) ==
    LET gone == {updates[i].update_id : i \in Deletable(updates, cutoff)}
    IN  SelectSeq(updates, LAMBDA r : r.update_id \notin gone)

\* POST /api/profile-updates/cleanup ('days_old' default 30, 'dry_run' default
\* true); a day is one tick of the clock.
CleanupOldUpdates(days_old, dry_run) ==
    /\ IF ~DB_AVAILABLE
       THEN /\ api' = [api EXCEPT !.last = "cleanup", !.status = 503, !.ncalls = @ + 1]
            /\ UNCHANGED ac_profile_updates
       ELSE LET cutoff_date == clock - days_old
                count == Cardinality(Deletable(ac_profile_updates, cutoff_date))
            IN  /\ ac_profile_updates' =
                       IF ~dry_run THEN DeleteRows(ac_profile_updates, cutoff_date)
                       ELSE ac_profile_updates
                /\ api' = [api EXCEPT !.last = "cleanup", !.status = 200,
                                      !.cutoff = cutoff_date, !.dry_run = dry_run,
                                      !.count = count, !.before = ac_profile_updates,
                                      !.ncalls = @ + 1]
    /\ UNCHANGED <<DB_AVAILABLE, unified_persons, ac_webhook_log, next_update_id,
                   clock, req, nreq, hist, links>>

-----------------------------------------------------------------------------
(* Inputs *)

ID1 == <<"4", "2">>
ID2 == <<"9", "9">>

\* Custom field names of the marketing platform.
F_Company == <<"C", "o", "m", "p", "a", "n", "y">>
F_Industry == <<"I", "n", "d", "u", "s", "t", "r", "y">>
F_JobTitle == <<"J", "o", "b", " ", "T", "i", "t", "l", "e">>
F_Location == <<"L", "o", "c", "a", "t", "i", "o", "n">>
F_Summary == <<"S", "u", "m", "m", "a", "r", "y">>
F_Notes == <<"N", "o", "t", "e", "s">>

FieldValue(field, value) == [field |-> field, value |-> value]

\* The contacts of the events: an id (or none), an email (or none), and either
\* no profile value, a first name, or custom fields (a company and an empty
\* job title).
EventIds == {None, ID1, ID2}
EventEmails == {None, <<"A", " ">>, <<"b">>}

EventContacts ==
    {[NoContact EXCEPT !.id = id, !.email = email, !.firstName = pf[1], !.fieldValues = pf[2]] :
        id \in EventIds, email \in EventEmails,
        pf \in {<<None, <<>>>>,
                <<<<"J">>, <<>>>>,
                <<None, <<FieldValue(F_Company, <<"y">>), FieldValue(F_JobTitle, <<>>)>>>>}}

JsonRequests ==
    {[ctype |-> "json", type |-> type, contact_id |-> None, contact |-> contact] :
        type \in {K_update, K_contact_add}, contact \in EventContacts}

DeleteRequests ==
    {[ctype |-> "json", type |-> K_delete, contact_id |-> None,
      contact |-> [NoContact EXCEPT !.id = id, !.email = email]] :
        id \in EventIds, email \in {None, <<"b">>}}

\* Requests of the other shapes webhook_handler accepts: an unknown type, no
\* type, the id at the top level, and the form encoding (contact[first_name]).
OtherRequests ==
    {[ctype |-> "json", type |-> <<"x">>, contact_id |-> None, contact |-> NoContact],
     [ctype |-> "json", type |-> None, contact_id |-> None, contact |-> NoContact],
     [ctype |-> "json", type |-> K_contact_update, contact_id |-> ID1,
      contact |-> [NoContact EXCEPT !.lastName = <<"D">>]],
     [ctype |-> "form", type |-> None, contact_id |-> None,
      contact |-> [NoContact EXCEPT !.id = ID2, !.email = <<"b">>, !.first_name = <<"K">>]],
     [ctype |-> "form", type |-> K_add, contact_id |-> None,
      contact |-> [NoContact EXCEPT !.id = ID1, !.email = <<"b">>]]}

Requests == JsonRequests \cup DeleteRequests \cup OtherRequests

-----------------------------------------------------------------------------
(* Initial stores: the rows an import may have left *)

PersonRow(ac_contact_id, primary_email, name, other) ==
    [name |-> name, primary_email |-> primary_email, phone |-> other,
     company |-> other, position |-> other, industry |-> other,
     location |-> other, professional_summary |-> other,
     ac_contact_id |-> ac_contact_id, ac_last_synced |-> 0,
     ac_profile_source |-> IF ac_contact_id = None THEN "import" ELSE "activecampaign"]

InitRows ==
    {PersonRow(ID1, <<"a">>, <<"J", " ", "D">>, <<"x">>),
     PersonRow(None, <<" ", "A">>, None, None),
     PersonRow(None, <<"b">>, <<>>, <<>>)}

\* The unique index holds of every store.
UniqueAcContactId(persons) ==
    \A p, q \in DOMAIN persons :
        (p # q /\ persons[p].ac_contact_id # None)
            => persons[p].ac_contact_id # persons[q].ac_contact_id

InitStores == {persons \in [PersonIds -> InitRows] : UniqueAcContactId(persons)}

\* Without the database file there is no store.
Init ==
    /\ DB_AVAILABLE \in BOOLEAN
    /\ unified_persons \in (IF DB_AVAILABLE THEN InitStores ELSE {<<>>})
    /\ ac_profile_updates = <<>>
    /\ ac_webhook_log = <<>>
    /\ next_update_id = 1
    /\ clock = 1
    /\ req = [s \in Slots |-> IdleReq]
    /\ nreq = 0
    /\ hist = [s \in Slots |-> NoHist]
    /\ links = <<>>
    /\ api = NoApi

\* One request at a time.
AllFree == \A s \in Slots : Free(s)

Next ==
    \E s \in Slots :
        \/ AllFree /\ nreq < MaxEvents /\ \E rq \in Requests : Receive(s, rq)
        \/ FindPersonByAcId(s)
        \/ FindPersonByEmail(s)
        \/ LinkAcContactId(s)
        \/ UpdateRead(s)
        \/ UpdateWrite(s)
        \/ LogWebhook(s)

Spec == Init /\ [][Next]_vars

\* Requests handled concurrently (the server handles each request in a thread
\* of its own): a new request may arrive while another is being handled.
ConcRequests ==
    {[ctype |-> "json", type |-> type, contact_id |-> None,
      contact |-> [NoContact EXCEPT !.id = id, !.email = email]] :
        type \in {K_update, K_contact_add}, id \in {ID1, ID2},
        email \in {<<"A", " ">>, <<"b">>}}
    \cup {[ctype |-> "json", type |-> K_delete, contact_id |-> None,
           contact |-> [NoContact EXCEPT !.id = ID1]]}

NextConc ==
    \E s \in Slots :
        \/ nreq < MaxEvents /\ \E rq \in ConcRequests : Receive(s, rq)
        \/ FindPersonByAcId(s)
        \/ FindPersonByEmail(s)
        \/ LinkAcContactId(s)
        \/ UpdateRead(s)
        \/ UpdateWrite(s)
        \/ LogWebhook(s)

SpecConc == Init /\ [][NextConc]_vars

\* Longer sequences of events, one at a time, over the ids and emails that
\* meet in the link.
LinkRequests ==
    {[ctype |-> "json", type |-> type, contact_id |-> None,
      contact |-> [NoContact EXCEPT !.id = id, !.email = email]] :
        type \in {K_update, K_contact_add}, id \in {ID1, ID2},
        email \in {<<"A", " ">>, <<"b">>}}

NextLink ==
    \E s \in Slots :
        \/ AllFree /\ nreq < MaxLinkEvents /\ \E rq \in LinkRequests : Receive(s, rq)
        \/ FindPersonByAcId(s)
        \/ FindPersonByEmail(s)
        \/ LinkAcContactId(s)
        \/ UpdateRead(s)
        \/ UpdateWrite(s)
        \/ LogWebhook(s)

SpecLink == Init /\ [][NextLink]_vars

\* Webhook events and the downstream consumer's calls, one at a time: an
\* update of the Person linked to ID1, an update that reaches the other Person
\* by email, and pulls, confirmations and cleanups between them.
SyncRequests ==
    {[ctype |-> "json", type |-> K_update, contact_id |-> None,
      contact |-> [NoContact EXCEPT !.id = ID1, !.firstName = <<"K">>,
                                    !.fieldValues = <<FieldValue(F_Company, <<"y">>)>>]],
     [ctype |-> "json", type |-> K_update, contact_id |-> None,
      contact |-> [NoContact EXCEPT !.id = ID2, !.email = <<"b">>,
                                    !.lastName = <<"D">>]]}

\* 'since' of a pull (NullTime: not given), 'limit' (default 1000), the
\* update_ids of a confirmation, 'days_old' of a cleanup.
Sinces == {NullTime, 2}
Limits == {1, 1000}
UpdateIdLists == SUBSET (1..2) \cup {{3, 9}}
DaysOld == {0, 1}

InitSync ==
    /\ DB_AVAILABLE \in BOOLEAN
    /\ unified_persons =
           IF DB_AVAILABLE
           THEN [p \in PersonIds |->
                    IF p = 1 THEN PersonRow(ID1, <<"a">>, <<"J", " ", "D">>, <<"x">>)
                    ELSE PersonRow(None, <<"b">>, <<>>, <<>>)]
           ELSE <<>>
    /\ ac_profile_updates = <<>>
    /\ ac_webhook_log = <<>>
    /\ next_update_id = 1
    /\ clock = 1
    /\ req = [s \in Slots |-> IdleReq]
    /\ nreq = 0
    /\ hist = [s \in Slots |-> NoHist]
    /\ links = <<>>
    /\ api = NoApi

NextSync ==
    \/ \E s \in Slots :
           \/ AllFree /\ nreq < MaxEvents /\ \E rq \in SyncRequests : Receive(s, rq)
           \/ FindPersonByAcId(s)
           \/ FindPersonByEmail(s)
           \/ LinkAcContactId(s)
           \/ UpdateRead(s)
           \/ UpdateWrite(s)
           \/ LogWebhook(s)
    \/ /\ AllFree
       /\ api.ncalls < MaxApiCalls
       /\ \/ \E include_synced \in BOOLEAN, since \in Sinces, limit \in Limits :
                 ApiProfileUpdates(include_synced, since, limit)
          \/ \E update_ids \in UpdateIdLists : ConfirmSync(update_ids)
          \/ \E days_old \in DaysOld, dry_run \in BOOLEAN :
                 CleanupOldUpdates(days_old, dry_run)

SpecSync == InitSync /\ [][NextSync]_vars

\* Events handled one at a time by a store whose statements may fail.
FaultRequests == SyncRequests \cup DeleteRequests

\* The statements of update_person_profile's transaction that succeed before
\* one raises.
StatementsDone == 0..(MaxItems + 2)

NextFault ==
    \E s \in Slots :
        \/ AllFree /\ nreq < MaxEvents /\ \E rq \in FaultRequests : Receive(s, rq)
        \/ FindPersonByAcId(s)
        \/ FindPersonByAcIdFails(s)
        \/ FindPersonByEmail(s)
        \/ FindPersonByEmailFails(s)
        \/ LinkAcContactId(s)
        \/ LinkAcContactIdFails(s)
        \/ UpdateRead(s)
        \/ UpdateReadFails(s)
        \/ UpdateWrite(s)
        \/ \E done \in StatementsDone : UpdateWriteFails(s, done)
        \/ LogWebhook(s)
        \/ LogWebhookFails(s)

SpecFault == Init /\ [][NextFault]_vars

\* Updates of the same Person handled concurrently: two events that change the
\* company of the Person linked to ID1 (one also its name), and one that
\* reaches the other Person by email.
RaceRequests ==
    SyncRequests \cup
    {[ctype |-> "json", type |-> K_update, contact_id |-> None,
      contact |-> [NoContact EXCEPT !.id = ID1,
                                    !.fieldValues = <<FieldValue(F_Company, <<"z">>)>>]]}

NextRace ==
    \E s \in Slots :
        \/ nreq < MaxEvents /\ \E rq \in RaceRequests : Receive(s, rq)
        \/ FindPersonByAcId(s)
        \/ FindPersonByEmail(s)
        \/ LinkAcContactId(s)
        \/ UpdateRead(s)
        \/ UpdateWrite(s)
        \/ LogWebhook(s)

SpecRace == InitSync /\ [][NextRace]_vars

-----------------------------------------------------------------------------
(* update_person_profile called on its own: any of the initial stores, any
   person id (one past the last is no person), any profile with at most
   MaxItems keys set. *)

ProfileDefault(key) ==
    IF key \in {"first_name", "last_name", "email", "phone"} THEN <<>> ELSE None

ProfileKeys ==
    {"first_name", "last_name", "email", "phone", "company", "position",
     "industry", "location", "professional_summary"}

ItemCount(profile) ==
    Cardinality({key \in ProfileKeys : profile[key] # ProfileDefault(key)})

TextValues == {<<"x">>, <<"y">>}
CustomValues == {None, <<>>} \cup TextValues

Profiles ==
    {profile \in
        {[first_name |-> fn, last_name |-> ln, email |-> em, phone |-> ph,
          company |-> co, position |-> po, industry |-> ind, location |-> lo,
          professional_summary |-> su] :
            fn \in {<<>>, <<"J">>, <<" ">>}, ln \in {<<>>, <<"D">>},
            em \in {<<>>, <<"a">>, <<"b">>}, ph \in {<<>>} \cup TextValues,
            co \in CustomValues, po \in CustomValues, ind \in CustomValues,
            lo \in CustomValues, su \in CustomValues} :
        ItemCount(profile) <= MaxItems}

InitApply ==
    /\ DB_AVAILABLE \in BOOLEAN
    /\ unified_persons \in (IF DB_AVAILABLE THEN InitStores ELSE {<<>>})
    /\ ac_profile_updates = <<>>
    /\ ac_webhook_log = <<>>
    /\ next_update_id = 1
    /\ clock = 1
    /\ \E person_id \in 1..(NumPersons + 1), profile \in Profiles :
           req = [s \in Slots |->
                     IF s = 1
                     THEN [IdleReq EXCEPT
                              !.pc = "update_read",
                              !.webhook_type = K_contact_update,
                              !.ac_contact_id = ID1,
                              !.person = <<[person_id |-> person_id, name |-> None,
                                            primary_email |-> None,
                                            ac_contact_id |-> ID1]>>,
                              !.profile_updates = profile]
                     ELSE IdleReq]
    /\ nreq = 0
    /\ hist = [s \in Slots |-> [NoHist EXCEPT !.persons = unified_persons]]
    /\ links = <<>>
    /\ api = NoApi

NextApply == \E s \in Slots : UpdateRead(s) \/ UpdateWrite(s)

SpecApply == InitApply /\ [][NextApply]_vars

-----------------------------------------------------------------------------
(* Properties *)

TrackedFields ==
    {"name", "primary_email", "phone", "company", "position", "industry",
     "location", "professional_summary"}

\* The value a profile carries for a tracked field: for name the trimmed
\* 'first last' combination.
IncomingValue(profile, field) ==
    IF field = "name"
    THEN strip(profile.first_name \o <<" ">> \o profile.last_name)
    ELSE IF field = "primary_email" THEN profile.email
    ELSE profile[field]

\* The tracked fields whose incoming value is non-empty and differs from row's.
Differing(row, profile) ==
    {field \in TrackedFields :
        /\ IncomingValue(profile, field) \notin {None, <<>>}
        /\ IncomingValue(profile, field) # row[field]}

\* The request in slot s called update_person_profile on an existing person and
\* the call has returned.
Applied(s) ==
    /\ req[s].pc \in {"log_webhook", "done"}
    /\ IsUpdate(req[s])
    /\ req[s].person # <<>>
    /\ req[s].current # <<>>

\* The Change Records appended since the request in slot s arrived.
NewRecords(s) ==
    SubSeq(ac_profile_updates, hist[s].nupd + 1, Len(ac_profile_updates))

\* C1: a call of update_person_profile on an existing person appends exactly
\* one Change Record per tracked field whose incoming value is non-empty and
\* differs from the stored value, with old_value the value stored before the
\* call and new_value the incoming value; afterwards the stored field equals
\* new_value and, if there was a change, ac_last_synced is newer.
C1_OneRecordPerDifferingField ==
    \A s \in Slots :
        Applied(s) =>
            LET person_id == req[s].person[1].person_id
                old == hist[s].persons[person_id]
                new == unified_persons[person_id]
                profile == req[s].profile_updates
                recs == NewRecords(s)
            IN  /\ Len(recs) = Cardinality(Differing(old, profile))
                /\ {recs[i].field_name : i \in 1..Len(recs)} = Differing(old, profile)
                /\ \A i \in 1..Len(recs) :
                       /\ recs[i].person_id = person_id
                       /\ recs[i].old_value = old[recs[i].field_name]
                       /\ recs[i].new_value = IncomingValue(profile, recs[i].field_name)
                       /\ new[recs[i].field_name] = recs[i].new_value
                /\ Differing(old, profile) # {} => new.ac_last_synced > old.ac_last_synced

C1_Witness ==
    \E s \in Slots : Applied(s) /\ Len(NewRecords(s)) >= 2

\* C5: a call of update_person_profile on an existing person in which every
\* incoming field is empty, missing or equal to the stored value reports
\* success, appends no Change Record and leaves the store as it was.
C5_NoChangeNoRecord ==
    \A s \in Slots :
        (Applied(s) /\ Differing(hist[s].persons[req[s].person[1].person_id],
                                 req[s].profile_updates) = {}) =>
            /\ req[s].success
            /\ NewRecords(s) = <<>>
            /\ unified_persons = hist[s].persons

C5_Witness ==
    \E s \in Slots :
        /\ Applied(s)
        /\ Differing(hist[s].persons[req[s].person[1].person_id],
                     req[s].profile_updates) = {}
        /\ req[s].profile_updates.phone \notin {None, <<>>}
        /\ req[s].success

\* The persons as they were when the request in slot s arrived.
Pre(s) == hist[s].persons

\* The request in slot s is a contact_add or contact_update event.
AddOrUpdate(s) == req[s].pc # "idle" /\ (IsAdd(req[s]) \/ IsUpdate(req[s]))

\* The event's contact id and email as the payload carries them.
EventId(s) ==
    IF req[s].payload.contact.id \notin {None, <<>>} THEN req[s].payload.contact.id
    ELSE IF req[s].payload.contact_id # None THEN req[s].payload.contact_id
    ELSE <<>>

EventEmail(s) ==
    IF req[s].payload.contact.email = None THEN <<>> ELSE req[s].payload.contact.email

\* The persons whose external id is id.
IdMatches(persons, id) ==
    {p \in DOMAIN persons : persons[p].ac_contact_id = id}

\* The persons whose lower-cased, trimmed email is that of email.
EmailMatches(persons, email) ==
    {p \in DOMAIN persons :
        /\ persons[p].primary_email # None
        /\ strip(lower(persons[p].primary_email)) = strip(lower(email))}

\* The Webhook Log Entries appended since the request in slot s arrived.
NewLogEntries(s) ==
    SubSeq(ac_webhook_log, hist[s].nlog + 1, Len(ac_webhook_log))

\* C2: a contact_add or contact_update event whose contact id matches no
\* Person leaves the external id of every Person that its email matches and
\* that already has another external id as it was.
C2_EmailFallbackKeepsLink ==
    \A s \in Slots :
        (AddOrUpdate(s) /\ IdMatches(Pre(s), EventId(s)) = {}) =>
            \A p \in EmailMatches(Pre(s), EventEmail(s)) :
                (Pre(s)[p].ac_contact_id \notin {None, EventId(s)}) =>
                    unified_persons[p].ac_contact_id = Pre(s)[p].ac_contact_id

\* C4: every handled contact_add, contact_update and contact_delete event has
\* appended exactly one Webhook Log Entry when it is answered, whatever the
\* outcome, log-only mode included.
C4_OneLogEntryPerEvent ==
    \A s \in Slots :
        (req[s].pc = "done" /\ (AddOrUpdate(s) \/ IsDelete(req[s]))) =>
            Len(NewLogEntries(s)) = 1

\* C7: a contact_add or contact_update event whose contact id is the external
\* id of a Person resolves to that Person whatever its email: no other Person
\* is taken as `person`, the result and the log entry carry that Person's id,
\* and every other Person is as it was.
C7_IdMatchWins ==
    \A s \in Slots :
        (AddOrUpdate(s) /\ IdMatches(Pre(s), EventId(s)) # {}) =>
            /\ req[s].person # <<>> =>
                   req[s].person[1].person_id \in IdMatches(Pre(s), EventId(s))
            /\ \A q \in DOMAIN Pre(s) \ IdMatches(Pre(s), EventId(s)) :
                   unified_persons[q] = Pre(s)[q]
            /\ req[s].pc = "done" =>
                   /\ req[s].resp.status = 200
                   /\ req[s].resp.person_id \in IdMatches(Pre(s), EventId(s))
                   /\ Len(NewLogEntries(s)) = 1
                   /\ NewLogEntries(s)[1].person_id = req[s].resp.person_id

C7_Witness ==
    \E s \in Slots :
        /\ AddOrUpdate(s)
        /\ req[s].pc = "done"
        /\ IdMatches(Pre(s), EventId(s)) # {}
        /\ EmailMatches(Pre(s), EventEmail(s)) \ IdMatches(Pre(s), EventId(s)) # {}
        /\ req[s].resp.person_id \in IdMatches(Pre(s), EventId(s))

\* C9: with the store available, a contact_add or contact_update event that
\* matches no Person by id or by email changes no Person and no Change Record,
\* appends one Webhook Log Entry (processed false, no person id, a reason) and
\* is answered 200 with success false and a message.
C9_NotFoundDeferred ==
    \A s \in Slots :
        (/\ AddOrUpdate(s)
         /\ DB_AVAILABLE
         /\ IdMatches(Pre(s), EventId(s)) = {}
         /\ EmailMatches(Pre(s), EventEmail(s)) = {}) =>
            /\ unified_persons = Pre(s)
            /\ NewRecords(s) = <<>>
            /\ req[s].pc = "done" =>
                   /\ Len(NewLogEntries(s)) = 1
                   /\ NewLogEntries(s)[1].processed = FALSE
                   /\ NewLogEntries(s)[1].person_id = 0
                   /\ NewLogEntries(s)[1].error_message \notin {SqlNull, ""}
                   /\ req[s].resp.status = 200
                   /\ req[s].resp.success = FALSE
                   /\ req[s].resp.message \in
                          {"Contact not found in analytics database",
                           "New contact - will sync via next export"}

C9_Witness ==
    \E s \in Slots :
        /\ AddOrUpdate(s)
        /\ DB_AVAILABLE
        /\ IdMatches(Pre(s), EventId(s)) = {}
        /\ EmailMatches(Pre(s), EventEmail(s)) = {}
        /\ req[s].pc = "done"
        /\ req[s].resp.success = FALSE
        /\ Len(ac_webhook_log) = 2

\* C10: a contact_delete event, whatever its contact id, changes no Person and
\* no Change Record, writes exactly one Webhook Log Entry with processed true
\* and returns success true.
C10_DeleteLogsOnly ==
    \A s \in Slots :
        (req[s].pc # "idle" /\ IsDelete(req[s])) =>
            /\ unified_persons = Pre(s)
            /\ NewRecords(s) = <<>>
            /\ req[s].pc = "done" =>
                   /\ Len(NewLogEntries(s)) = 1
                   /\ NewLogEntries(s)[1].processed = TRUE
                   /\ req[s].resp.status = 200
                   /\ req[s].resp.success = TRUE

\* A tracked field of a Person that holds a non-empty value holds one after
\* the step.
NonEmptyStays ==
    \A p \in DOMAIN unified_persons :
        \A field \in TrackedFields :
            unified_persons[p][field] \notin {None, <<>>} =>
                unified_persons'[p][field] \notin {None, <<>>}

\* The event in slot s has left every tracked field for which it carries no
\* value (for name: neither a first nor a last name) as it was: a field that
\* differs from what it was when the event arrived is one the event carries a
\* value for.
EmptyIncomingLeavesField(s) ==
    LET profile == extract_profile_fields(req[s].payload)
    IN  \A field \in TrackedFields :
            (\E p \in DOMAIN Pre(s) : unified_persons[p][field] # Pre(s)[p][field]) =>
                IncomingValue(profile, field) \notin {None, <<>>}

\* C6: empty incoming values never overwrite: no step makes a non-empty
\* tracked field empty or null, and an event whose value for a tracked field
\* is empty or missing leaves that field of every Person unchanged.
C6_EmptyNeverOverwrites ==
    /\ [][NonEmptyStays]_vars
    /\ [](\A s \in Slots : req[s].pc # "idle" => EmptyIncomingLeavesField(s))

C6_Witness ==
    \E s \in Slots :
        /\ Applied(s)
        /\ req[s].pc = "done"
        /\ NewRecords(s) # <<>>
        /\ \E field \in TrackedFields :
               /\ IncomingValue(req[s].profile_updates, field) \in {None, <<>>}
               /\ unified_persons[req[s].person[1].person_id][field] \notin {None, <<>>}

\* C3: in every state reached by contact_add, contact_update and
\* contact_delete events, handled one after another or interleaved, no two
\* Persons hold the same non-null external contact identifier.
C3_AtMostOnePersonPerAcId ==
    \A p, q \in DOMAIN unified_persons :
        (p # q /\ unified_persons[p].ac_contact_id # None) =>
            unified_persons[p].ac_contact_id # unified_persons[q].ac_contact_id

\* Two interleaved events with the same id have both reached the link; the
\* index has refused the second.
C3_Witness ==
    \E s, t \in Slots :
        /\ s # t
        /\ req[s].pc = "done" /\ req[s].resp.status = 500
        /\ req[t].ac_contact_id = req[s].ac_contact_id
        /\ req[t].person # <<>> /\ req[s].person # <<>>
        /\ req[t].person[1].person_id # req[s].person[1].person_id
        /\ unified_persons[req[t].person[1].person_id].ac_contact_id = req[s].ac_contact_id

\* The unlinked Persons whose lower-cased, trimmed email is that of the event
\* in slot s.
UnlinkedEmailMatches(s) ==
    {p \in EmailMatches(Pre(s), EventEmail(s)) : Pre(s)[p].ac_contact_id = None}

\* C8: a contact_add or contact_update event with no id match whose
\* normalized email is that of a Person with no external id resolves to that
\* Person and sets its external id to the event's id and its source tag to
\* 'activecampaign'; every later event with that id resolves to the same
\* Person.
C8_EmailFallbackLinksOnce ==
    /\ \A s \in Slots :
        (/\ AddOrUpdate(s)
         /\ req[s].pc = "done"
         /\ IdMatches(Pre(s), EventId(s)) = {}
         /\ UnlinkedEmailMatches(s) # {}) =>
            /\ req[s].person # <<>>
            /\ req[s].person[1].person_id \in UnlinkedEmailMatches(s)
            /\ req[s].resp.person_id = req[s].person[1].person_id
            /\ LET row == unified_persons[req[s].person[1].person_id]
               IN  /\ row.ac_contact_id = req[s].ac_contact_id
                   /\ row.ac_profile_source = "activecampaign"
    /\ \A s \in Slots :
        (AddOrUpdate(s) /\ req[s].pc = "done") =>
            \A i \in 1..hist[s].nlinks :
                (links[i].previous = None /\ links[i].ac_contact_id = EventId(s)) =>
                    /\ req[s].person # <<>>
                    /\ req[s].person[1].person_id = links[i].person_id

\* C11: a contact_add event that resolves to an existing Person sets that
\* Person's external id to the event's id only if it was unset, changes no
\* tracked field and no last-synced timestamp of any Person, appends no Change
\* Record whatever profile values the payload carries, writes one Webhook Log
\* Entry with processed true and that person id, and returns success.
C11_AddLinksOnly ==
    \A s \in Slots :
        (IsAdd(req[s]) /\ req[s].pc = "done" /\ req[s].person # <<>>) =>
            LET person_id == req[s].person[1].person_id
                old == Pre(s)[person_id]
            IN  /\ unified_persons[person_id].ac_contact_id =
                       IF Truthy(old.ac_contact_id) THEN old.ac_contact_id
                       ELSE req[s].ac_contact_id
                /\ \A p \in DOMAIN Pre(s) :
                       /\ \A field \in TrackedFields \cup {"ac_last_synced"} :
                              unified_persons[p][field] = Pre(s)[p][field]
                       /\ p # person_id => unified_persons[p] = Pre(s)[p]
                /\ NewRecords(s) = <<>>
                /\ Len(NewLogEntries(s)) = 1
                /\ NewLogEntries(s)[1].processed
                /\ NewLogEntries(s)[1].person_id = person_id
                /\ req[s].resp.status = 200
                /\ req[s].resp.success
                /\ req[s].resp.person_id = person_id

\* A contact_add event carrying a first name that differs from the stored name
\* has resolved to a Person and has been answered.
C11_Witness ==
    \E s \in Slots :
        /\ IsAdd(req[s])
        /\ req[s].pc = "done"
        /\ req[s].person # <<>>
        /\ Differing(Pre(s)[req[s].person[1].person_id],
                     extract_profile_fields(req[s].payload)) # {}

\* The request in slot s is a contact_update event with the payload of the
\* event handled just before it, and both have resolved to the same Person.
SamePayloadAgain(s) ==
    /\ IsUpdate(req[s])
    /\ req[s].pc = "done"
    /\ hist[s].prev.pc = "done"
    /\ IsUpdate(hist[s].prev)
    /\ hist[s].prev.payload = req[s].payload
    /\ hist[s].prev.person # <<>>
    /\ req[s].person # <<>>
    /\ hist[s].prev.person[1].person_id = req[s].person[1].person_id

\* C12: handling the same contact_update payload a second time in succession
\* against the same Person appends no Change Record and leaves the Person's
\* row (tracked fields, external id, last-synced timestamp) as the first
\* handling left it; both handlings report success.
C12_SecondHandlingChangesNothing ==
    \A s \in Slots :
        SamePayloadAgain(s) =>
            /\ NewRecords(s) = <<>>
            /\ unified_persons[req[s].person[1].person_id]
                   = Pre(s)[req[s].person[1].person_id]
            /\ hist[s].prev.resp.status = 200 /\ hist[s].prev.resp.success
            /\ req[s].resp.status = 200 /\ req[s].resp.success

\* The first handling changed the Person and the second has been answered.
C12_Witness ==
    \E s \in Slots :
        /\ SamePayloadAgain(s)
        /\ hist[s].nupd > 0
        /\ Pre(s)[req[s].person[1].person_id].ac_last_synced > 0

\* The type of the event in slot s as it was sent is missing or, once
\* 'contact_' is prefixed when absent, is none of the three event types.
TypeMissingOrUnknown(s) ==
    LET sent == hist[s].rq.type
        normalized == IF Truthy(sent) /\ ~StartsWith(sent, K_contact_)
                      THEN K_contact_ \o sent ELSE sent
    IN  /\ hist[s].rq.ctype \in {"json", "form"}
        /\ \/ ~Truthy(sent)
           \/ normalized \notin {K_contact_add, K_contact_update, K_contact_delete}

\* C15: an event whose type is missing or unknown, in the structured body or in
\* the flattened form, is answered 400 at once and writes no Webhook Log Entry,
\* changes no Person and appends no Change Record.
C15_UnknownTypeRejected ==
    \A s \in Slots :
        (req[s].pc # "idle" /\ TypeMissingOrUnknown(s)) =>
            /\ req[s].pc = "done"
            /\ req[s].resp.status = 400
            /\ NewLogEntries(s) = <<>>
            /\ NewRecords(s) = <<>>
            /\ unified_persons = Pre(s)

\* The Change Records of a field of a Person, in append order.
RecordsOf(person_id, field) ==
    SelectSeq(ac_profile_updates,
              LAMBDA r : r.person_id = person_id /\ r.field_name = field)

\* C19: under sequential handling the Change Log is consistent with the store:
\* the records of a field of a Person form a chain in append order (each
\* old_value is the previous record's new_value, and differs from its own
\* new_value), and the last record's new_value is the stored value.
C19_ChangeLogChain ==
    \A person_id \in DOMAIN unified_persons :
        \A field \in TrackedFields :
            LET recs == RecordsOf(person_id, field)
            IN  recs # <<>> =>
                    /\ \A i \in 1..Len(recs) : recs[i].old_value # recs[i].new_value
                    /\ \A i \in 1..(Len(recs) - 1) :
                           recs[i + 1].old_value = recs[i].new_value
                    /\ recs[Len(recs)].new_value = unified_persons[person_id][field]

\* A field of a Person has been changed by two events.
C19_Witness ==
    \E person_id \in DOMAIN unified_persons :
        \E field \in TrackedFields : Len(RecordsOf(person_id, field)) >= 2


StoredUpdateIds == {ac_profile_updates[i].update_id : i \in DOMAIN ac_profile_updates}

UnsyncedUpdateIds ==
    {ac_profile_updates[i].update_id :
        i \in {j \in DOMAIN ac_profile_updates : ac_profile_updates[j].synced_to_local # 1}}

\* C13: Change Records are pulled and acknowledged exactly once.  A pull
\* without include_synced returns only records that are not acknowledged, and
\* never a record whose id was passed to confirm; without 'since' it returns
\* every unacknowledged record the limit allows.  The records marked synced
\* are exactly those whose ids were passed to confirm, so a record appended
\* between a pull and its confirm is still unsynced after the confirm.
C13_PulledAndAcknowledgedOnce ==
    /\ (api.last = "pull" /\ api.status = 200 /\ ~api.include_synced) =>
           /\ api.pulled \cap api.confirmed = {}
           /\ api.pulled \subseteq UnsyncedUpdateIds
           /\ api.since = NullTime =>
                  LET due == {id \in UnsyncedUpdateIds : id < api.upto}
                  IN  Cardinality(api.pulled) =
                          IF api.limit < Cardinality(due)
                          THEN api.limit ELSE Cardinality(due)
    /\ \A i \in DOMAIN ac_profile_updates :
           ac_profile_updates[i].synced_to_local = 1
               <=> ac_profile_updates[i].update_id \in api.confirmed
    /\ (api.missed \ api.confirmed) \subseteq UnsyncedUpdateIds

\* A record appended after a pull, left out of that pull's confirmation, is
\* returned by a later pull that no longer returns the confirmed records.
C13_Witness ==
    /\ api.last = "pull" /\ api.status = 200 /\ ~api.include_synced
    /\ api.confirmed # {}
    /\ api.pulled \cap (api.missed \ api.confirmed) # {}

\* The rows a cleanup was run on that its WHERE clause selects, and those that
\* are no longer stored.
DueAtCleanup ==
    {api.before[i].update_id :
        i \in {j \in DOMAIN api.before :
                  /\ api.before[j].synced_to_local = 1
                  /\ api.before[j].synced_at # NullTime
                  /\ api.before[j].synced_at < api.cutoff}}

GoneSinceCleanup ==
    {api.before[i].update_id : i \in DOMAIN api.before} \ StoredUpdateIds

\* C14: the cleanup deletes only acknowledged Change Records whose synced_at
\* is older than the cutoff.  No record that was never acknowledged is ever
\* deleted; a dry run deletes nothing; and the number a cleanup reports is the
\* number of records a non-dry run in that state deletes.
C14_CleanupDeletesOnlyAcknowledged ==
    /\ \A id \in 1..(next_update_id - 1) :
           id \notin api.confirmed => id \in StoredUpdateIds
    /\ (api.last = "cleanup" /\ api.status = 200) =>
           /\ api.count = Cardinality(DueAtCleanup)
           /\ GoneSinceCleanup = IF api.dry_run THEN {} ELSE DueAtCleanup

\* A cleanup that was not a dry run deleted a record and left an
\* unacknowledged one behind.
C14_Witness ==
    /\ api.last = "cleanup" /\ api.status = 200 /\ ~api.dry_run
    /\ api.count >= 1
    /\ UnsyncedUpdateIds # {}

\* A dry run in a state where a non-dry run would delete a record.
C14_DryRunWitness ==
    /\ api.last = "cleanup" /\ api.status = 200 /\ api.dry_run
    /\ api.count >= 1

\* C16: a recognized event during whose handling a store operation failed is
\* answered with HTTP 500, never 200.
C16_StoreFailureAnswered500 ==
    \A s \in Slots :
        (req[s].pc = "done" /\ hist[s].failed) => req[s].resp.status = 500

\* The tracked fields and ac_last_synced of person_id are as they were when the
\* request in slot s arrived.
PersonAsBefore(s, person_id) ==
    /\ \A field \in TrackedFields :
           unified_persons[person_id][field] = hist[s].persons[person_id][field]
    /\ unified_persons[person_id].ac_last_synced = hist[s].persons[person_id].ac_last_synced

\* The tracked fields of person_id that differ from their values when the
\* request in slot s arrived are those of the Change Records written since,
\* each with the old and the new value, and ac_last_synced is set.
PersonUpdatedWithRecords(s, person_id) ==
    LET old == hist[s].persons[person_id]
        new == unified_persons[person_id]
        recs == NewRecords(s)
    IN  /\ recs # <<>>
        /\ new.ac_last_synced # old.ac_last_synced
        /\ {recs[i].field_name : i \in 1..Len(recs)} =
               {field \in TrackedFields : new[field] # old[field]}
        /\ \A i \in 1..Len(recs) :
               /\ recs[i].person_id = person_id
               /\ recs[i].old_value = old[recs[i].field_name]
               /\ recs[i].new_value = new[recs[i].field_name]

\* C17: the update of a Person's fields with ac_last_synced and the append of
\* its Change Records are atomic.  In every state, also after a statement of
\* update_person_profile failed, either the Person's fields are updated and
\* every corresponding Change Record exists, or the Person is unchanged and no
\* Change Record of the call exists; after a call that returned failure the
\* Person and the Change Log are as they were.
C17_UpdateAndRecordsAtomic ==
    \A s \in Slots :
        (IsUpdate(req[s]) /\ req[s].person # <<>>) =>
            LET person_id == req[s].person[1].person_id
            IN  /\ \/ PersonAsBefore(s, person_id) /\ NewRecords(s) = <<>>
                   \/ PersonUpdatedWithRecords(s, person_id)
                /\ (req[s].pc \in {"log_webhook", "done"} /\ ~req[s].success) =>
                       PersonAsBefore(s, person_id) /\ NewRecords(s) = <<>>

\* update_person_profile failed after its UPDATE and an INSERT had succeeded,
\* and has returned False.
C17_Witness ==
    \E s \in Slots :
        /\ IsUpdate(req[s]) /\ req[s].person # <<>>
        /\ req[s].pc = "log_webhook"
        /\ req[s].current # <<>>
        /\ hist[s].failed /\ ~req[s].success
        /\ Len(ChangesLogged(req[s].current[1], req[s].profile_updates)) = 2

\* Every Change Record a step appends has as old_value the value stored just
\* before the step.
OldValueIsStoredValue ==
    \A i \in (Len(ac_profile_updates) + 1)..Len(ac_profile_updates') :
        LET rec == ac_profile_updates'[i]
        IN  rec.old_value = unified_persons[rec.person_id][rec.field_name]

\* C18: two contact_update events for the same Person handled concurrently
\* have the outcome of some serial order: every Change Record's old_value is
\* the value stored immediately before the record's write, and once both are
\* handled the stored value of each field is the new_value of the last Change
\* Record written for it.
C18_ConcurrentUpdatesSerial ==
    /\ [][OldValueIsStoredValue]_vars
    /\ [](AllFree =>
            \A person_id \in DOMAIN unified_persons :
                \A field \in TrackedFields :
                    LET recs == RecordsOf(person_id, field)
                    IN  recs # <<>> =>
                            recs[Len(recs)].new_value = unified_persons[person_id][field])

====
